---- MODULE Spec2Model ----
(***************************************************************************)
(* State-machine model of the two Stylus contracts of the repository:      *)
(*   YourContract     (packages/stylus/your-contract/src/lib.rs)           *)
(*   PortfolioReader  (packages/stylus/your-contract/src/portfolio_reader.rs) *)
(* Every public method is one action; a call that reverts (an Err result   *)
(* or a panic) leaves the contract storage and the balances as they were.  *)
(***************************************************************************)
EXTENDS Integers, Sequences, FiniteSets, TLC

(***************************************************************************)
(* Bounds of the model.                                                    *)
(***************************************************************************)
\* Largest value of the unsigned word that stands for U256 (U256::MAX).
U256_MAX == 3
\* Longest recipients / amounts vector passed to a batch method.
MaxLen == 2
\* Number of calls (the constructor's included) made to the contract.
MaxCalls == 4
\* Native balance every user account starts with.
InitBalance == 1

Modulus == U256_MAX + 1

(***************************************************************************)
(* Accounts.  An Address is modelled by the integer its 20 bytes spell in  *)
(* big-endian order.                                                       *)
(***************************************************************************)
ZERO == 0
Users == {1, 258}
SELF == 4660
Tokens == {43981}
Holders == Users \cup {SELF}

Greetings == {"A", "B"}
\* Amounts passed as arguments: nothing, one unit, and the largest word.
Amounts == {0, 1, U256_MAX}

SeqsUpTo(S, n) == UNION {[1..k -> S] : k \in 0..n}

VARIABLES
    constructed,            \* the constructor has run successfully
    owner,                  \* Ownable ownable (its _owner slot)
    greeting,               \* string greeting
    premium,                \* bool premium
    total_counter,          \* uint256 total_counter
    user_greeting_counter,  \* mapping(address => uint256)
    total_native_sent,      \* uint256 total_native_sent
    total_erc20_sent,       \* uint256 total_erc20_sent
    user_native_sent,       \* mapping(address => uint256)
    user_erc20_sent,        \* mapping(address => uint256)
    balance,                \* native balances held by the host (vm().balance)
    events,                 \* logs emitted by the last call
    calls,                  \* external calls issued by the last call
    last,                   \* the call being reported: method, msg_sender, msg_value,
                            \* arguments, result ("idle" between two transactions)
    hist,                   \* history of set_greeting calls
    ncalls,                 \* number of calls made so far
    world,                  \* the token contracts PortfolioReader queries
    query,                  \* the last PortfolioReader call
    ret                     \* what that call returned

storage == <<owner, greeting, premium, total_counter, user_greeting_counter,
             total_native_sent, total_erc20_sent, user_native_sent, user_erc20_sent>>
vars == <<constructed, owner, greeting, premium, total_counter, user_greeting_counter,
          total_native_sent, total_erc20_sent, user_native_sent, user_erc20_sent,
          balance, events, calls, last, hist, ncalls, world, query, ret>>
ledger == <<constructed, storage, balance, events, calls, last, hist, ncalls>>
reader == <<world, query, ret>>

(***************************************************************************)
(* U256 arithmetic: `+` and `+=` of alloy_primitives::U256 wrap.           *)
(***************************************************************************)
U256Add(a, b) == (a + b) % Modulus

RECURSIVE Sum(_)
Sum(s) == IF s = <<>> THEN 0 ELSE s[1] + Sum(Tail(s))

RECURSIVE SumOver(_, _)
SumOver(f, S) == IF S = {} THEN 0
                 ELSE LET x == CHOOSE y \in S : TRUE IN f[x] + SumOver(f, S \ {x})

(***************************************************************************)
(* The transferFrom call data.                                             *)
(***************************************************************************)
RECURSIVE to_be_bytes(_, _)
to_be_bytes(n, len) ==
    IF len = 0 THEN <<>> ELSE Append(to_be_bytes(n \div 256, len - 1), n % 256)

as_slice(addr) == to_be_bytes(addr, 20)

\* let mut b = [0u8; 32]; b[12..32].copy_from_slice(addr.as_slice());
\* (PadAddressLeft copies to b[0..20] instead.)
PadAddressLeft(addr) == as_slice(addr) \o [i \in 1..12 |-> 0]
PadAddress(addr) == [i \in 1..12 |-> 0] \o as_slice(addr)

TransferFromSelector == <<35, 184, 114, 221>>

\* The encoded words, computed once per address and per amount.
AddressWord == [a \in Users \cup {ZERO} |-> PadAddress(a)]
AmountWord == [m \in Amounts |-> to_be_bytes(m, 32)]

TransferFromCallDataSwapped(sender, recipient, amount) ==
    TransferFromSelector \o AddressWord[recipient] \o AddressWord[sender]
        \o AmountWord[amount]
TransferFromCallData(sender, recipient, amount) ==
    TransferFromSelector \o AddressWord[sender] \o AddressWord[recipient]
        \o AmountWord[amount]

(***************************************************************************)
(* Host services.                                                          *)
(***************************************************************************)
\* A payable call moves msg_value from the caller to the contract.
Receive(bal, sender, value) ==
    [bal EXCEPT ![sender] = @ - value, ![SELF] = @ + value]

\* vm().transfer_eth(to, amount): fails when the contract cannot pay or when
\* the recipient does not accept.
transfer_eth(bal, to, amount, accepts) ==
    LET ok == accepts /\ bal[SELF] >= amount
    IN  [ok   |-> ok,
         bal  |-> IF ok THEN [bal EXCEPT ![SELF] = @ - amount, ![to] = @ + amount]
                  ELSE bal,
         call |-> [kind |-> "transfer_eth", to |-> to, value |-> amount,
                   data |-> <<>>, ok |-> ok]]

\* vm().call_contract(token, call_data, ...): the outcome is the token's.
call_contract(token, data, ok) ==
    [kind |-> "call_contract", to |-> token, value |-> 0, data |-> data, ok |-> ok]

Call(op, sender, value, text, addr, recipients, amounts, result) ==
    [op |-> op, sender |-> sender, value |-> value, text |-> text, addr |-> addr,
     recipients |-> recipients, amounts |-> amounts, result |-> result]

(***************************************************************************)
(* Ownable (openzeppelin_stylus::access::ownable).                         *)
(***************************************************************************)
only_owner_unchecked(sender) == TRUE
only_owner_or_vacant(sender) == owner = sender \/ owner = ZERO
only_owner(sender) == owner = sender

OwnershipTransferred(previous, new) ==
    [name |-> "OwnershipTransferred", previous |-> previous, new |-> new]


(***************************************************************************)
(* Initial state: the contract is deployed, its storage is all zero and    *)
(* the constructor has not run yet.                                        *)
(***************************************************************************)
Idle == Call("idle", ZERO, 0, "", ZERO, <<>>, <<>>, "Ok")

LedgerInit ==
    /\ constructed = FALSE
    /\ owner = ZERO
    /\ greeting = ""
    /\ premium = FALSE
    /\ total_counter = 0
    /\ user_greeting_counter = [u \in Users |-> 0]
    /\ total_native_sent = 0
    /\ total_erc20_sent = 0
    /\ user_native_sent = [u \in Users |-> 0]
    /\ user_erc20_sent = [u \in Users |-> 0]
    /\ balance = [h \in Holders |-> IF h = SELF THEN 0 ELSE InitBalance]
    /\ events = <<>>
    /\ calls = <<>>
    /\ last = Idle
    /\ hist = [n |-> 0, by |-> [u \in Users |-> 0], label |-> "", value |-> 0]
    /\ ncalls = 0

\* The entrypoint takes one call per transaction.
Ready == last = Idle /\ ncalls < MaxCalls

Returned(call) == last' = call /\ ncalls' = ncalls + 1 /\ UNCHANGED reader

\* The transaction is over: its receipt (result, logs, calls) is dropped.
Settle ==
    /\ last # Idle
    /\ last' = Idle
    /\ events' = <<>>
    /\ calls' = <<>>
    /\ UNCHANGED <<constructed, storage, balance, hist, ncalls, reader>>

\* A call that returns Err or panics: the transaction reverts.
Reverted(call) ==
    /\ Returned(call)
    /\ events' = <<>>
    /\ calls' = <<>>
    /\ UNCHANGED <<constructed, storage, balance, hist>>

(***************************************************************************)
(* YourContract::constructor                                               *)
(***************************************************************************)
EmptyGreeting == ""
DefaultGreeting == "Building Unstoppable Apps!!!"

constructor(sender, initial_owner) ==
    /\ ~constructed /\ Ready
    /\ IF initial_owner = ZERO
       THEN Reverted(Call("constructor", sender, 0, "", initial_owner, <<>>, <<>>,
                          "InvalidOwner"))
       ELSE /\ constructed' = TRUE
            /\ owner' = initial_owner
            /\ greeting' = DefaultGreeting
            /\ premium' = FALSE
            /\ total_counter' = 0
            /\ total_native_sent' = 0
            /\ total_erc20_sent' = 0
            /\ events' = <<OwnershipTransferred(ZERO, initial_owner)>>
            /\ calls' = <<>>
            /\ Returned(Call("constructor", sender, 0, "", initial_owner, <<>>, <<>>, "Ok"))
            /\ UNCHANGED <<user_greeting_counter, user_native_sent, user_erc20_sent,
                           balance, hist>>

(***************************************************************************)
(* YourContract::set_greeting                                              *)
(***************************************************************************)
\* let is_premium = msg_value > U256::ZERO;
IsPremiumAlways(msg_value) == msg_value >= 0
IsPremium(msg_value) == msg_value > 0

\* self.user_greeting_counter.insert(sender, current_user_count + U256::from(1))
UserCountReset(current_user_count) == U256Add(0, 1)
NextUserCount(current_user_count) == U256Add(current_user_count, 1)

\* log(self.vm(), event): the event joins the logs of the call. seen is the
\* contract's storage as it stands when log is called.
log_before_updates(event, seen) == <<event @@ [seen |-> storage]>>
log(event, seen) == <<event @@ [seen |-> seen]>>

GreetingChange(sender, new_greeting, is_premium, msg_value) ==
    [name |-> "GreetingChange", greetingSetter |-> sender, newGreeting |-> new_greeting,
     premium |-> is_premium, value |-> msg_value]

set_greeting(sender, value, new_greeting) ==
    /\ constructed /\ Ready
    /\ value <= balance[sender]
    /\ greeting' = new_greeting
    /\ total_counter' = U256Add(total_counter, 1)
    /\ user_greeting_counter' =
           [user_greeting_counter EXCEPT ![sender] = NextUserCount(@)]
    /\ premium' = IsPremium(value)
    /\ calls' = <<>>
    /\ balance' = Receive(balance, sender, value)
    /\ Returned(Call("set_greeting", sender, value, new_greeting, ZERO, <<>>, <<>>, "Ok"))
    /\ hist' = [n |-> hist.n + 1, by |-> [hist.by EXCEPT ![sender] = @ + 1],
                label |-> new_greeting, value |-> value]
    /\ UNCHANGED <<constructed, owner, total_native_sent, total_erc20_sent,
                   user_native_sent, user_erc20_sent>>
    /\ events' = log(GreetingChange(sender, new_greeting, IsPremium(value), value),
                     storage')

(***************************************************************************)
(* YourContract::withdraw                                                  *)
(***************************************************************************)
withdraw_or_fail(sender, accepts) ==
    /\ constructed /\ Ready
    /\ IF ~only_owner(sender)
       THEN Reverted(Call("withdraw", sender, 0, "", ZERO, <<>>, <<>>,
                          "UnauthorizedAccount"))
       ELSE IF balance[SELF] > 0 /\ ~accepts
       THEN Reverted(Call("withdraw", sender, 0, "", ZERO, <<>>, <<>>,
                          "TransferFailed"))
       ELSE LET bal == balance[SELF]
                t == transfer_eth(balance, owner, bal, accepts)
            IN  /\ balance' = IF bal > 0 THEN t.bal ELSE balance
                /\ calls' = IF bal > 0 THEN <<t.call>> ELSE <<>>
                /\ events' = <<>>
                /\ Returned(Call("withdraw", sender, 0, "", ZERO, <<>>, <<>>, "Ok"))
                /\ UNCHANGED <<constructed, storage, hist>>

withdraw(sender, accepts) ==
    /\ constructed /\ Ready
    /\ IF ~only_owner(sender)
       THEN Reverted(Call("withdraw", sender, 0, "", ZERO, <<>>, <<>>,
                          "UnauthorizedAccount"))
       ELSE LET bal == balance[SELF]
                t == transfer_eth(balance, owner, bal, accepts)
            IN  /\ balance' = IF bal > 0 THEN t.bal ELSE balance
                /\ calls' = IF bal > 0 THEN <<t.call>> ELSE <<>>
                /\ events' = <<>>
                /\ Returned(Call("withdraw", sender, 0, "", ZERO, <<>>, <<>>, "Ok"))
                /\ UNCHANGED <<constructed, storage, hist>>

(***************************************************************************)
(* YourContract::send_native_individual                                    *)
(***************************************************************************)
NativeTokenSent(from, to, amount) ==
    [name |-> "NativeTokenSent", from |-> from, to |-> to, amount |-> amount]

send_native_individual_owner_only(sender, value, recipient, amount, accepts) ==
    /\ constructed /\ Ready
    /\ value <= balance[sender]
    /\ IF ~only_owner(sender)
       THEN Reverted(Call("send_native_individual", sender, value, "", ZERO,
                          <<recipient>>, <<amount>>, "UnauthorizedAccount"))
       ELSE /\ LET t == transfer_eth(Receive(balance, sender, value), recipient,
                                     amount, accepts)
               IN  /\ balance' = t.bal
                   /\ calls' = <<t.call>>
            /\ total_native_sent' = U256Add(total_native_sent, amount)
            /\ user_native_sent' =
                   [user_native_sent EXCEPT ![sender] = U256Add(@, amount)]
            /\ Returned(Call("send_native_individual", sender, value, "", ZERO,
                            <<recipient>>, <<amount>>, "Ok"))
            /\ UNCHANGED <<constructed, owner, greeting, premium, total_counter,
                           user_greeting_counter, total_erc20_sent, user_erc20_sent,
                           hist>>
            /\ events' = log(NativeTokenSent(sender, recipient, amount), storage')

send_native_individual(sender, value, recipient, amount, accepts) ==
    /\ constructed /\ Ready
    /\ value <= balance[sender]
    /\ LET t == transfer_eth(Receive(balance, sender, value), recipient, amount, accepts)
       IN  /\ balance' = t.bal
           /\ calls' = <<t.call>>
    /\ total_native_sent' = U256Add(total_native_sent, amount)
    /\ user_native_sent' = [user_native_sent EXCEPT ![sender] = U256Add(@, amount)]
    /\ Returned(Call("send_native_individual", sender, value, "", ZERO,
                    <<recipient>>, <<amount>>, "Ok"))
    /\ UNCHANGED <<constructed, owner, greeting, premium, total_counter,
                   user_greeting_counter, total_erc20_sent, user_erc20_sent, hist>>
    /\ events' = log(NativeTokenSent(sender, recipient, amount), storage')

(***************************************************************************)
(* YourContract::send_native_batch                                         *)
(***************************************************************************)
\* for (i, recipient) in recipients.iter().enumerate() { let amount = amounts[i]; ... }
\* amounts[i] panics when i is out of bounds.
RECURSIVE native_batch_loop(_, _, _, _, _)
native_batch_loop(i, st, recipients, amounts, accepts) ==
    IF i > Len(recipients) THEN st
    ELSE IF i > Len(amounts) THEN [st EXCEPT !.panicked = TRUE]
    ELSE LET t == transfer_eth(st.bal, recipients[i], amounts[i], accepts[i])
         IN  native_batch_loop(i + 1,
                 [panicked     |-> FALSE,
                  bal          |-> t.bal,
                  total_amount |-> U256Add(st.total_amount, amounts[i]),
                  calls        |-> Append(st.calls, t.call)],
                 recipients, amounts, accepts)

BatchNativeTokenSent(from, total_amount, recipient_count) ==
    [name |-> "BatchNativeTokenSent", from |-> from, totalAmount |-> total_amount,
     recipientCount |-> recipient_count]

send_native_batch(sender, value, recipients, amounts, accepts) ==
    /\ constructed /\ Ready
    /\ value <= balance[sender]
    /\ LET r == native_batch_loop(1,
                    [panicked |-> FALSE, bal |-> Receive(balance, sender, value),
                     total_amount |-> 0, calls |-> <<>>],
                    recipients, amounts, accepts)
       IN  IF r.panicked
           THEN Reverted(Call("send_native_batch", sender, value, "", ZERO,
                              recipients, amounts, "Panic"))
           ELSE /\ balance' = r.bal
                /\ calls' = r.calls
                /\ total_native_sent' = U256Add(total_native_sent, r.total_amount)
                /\ user_native_sent' =
                       [user_native_sent EXCEPT ![sender] = U256Add(@, r.total_amount)]
                /\ Returned(Call("send_native_batch", sender, value, "", ZERO,
                                recipients, amounts, "Ok"))
                /\ UNCHANGED <<constructed, owner, greeting, premium, total_counter,
                               user_greeting_counter, total_erc20_sent, user_erc20_sent,
                               hist>>
                /\ events' = log(BatchNativeTokenSent(sender, r.total_amount,
                                                      Len(recipients)),
                                 storage')

(***************************************************************************)
(* YourContract::send_erc20_individual                                     *)
(***************************************************************************)
ERC20TokenSent(token, from, to, amount) ==
    [name |-> "ERC20TokenSent", token |-> token, from |-> from, to |-> to,
     amount |-> amount]

send_erc20_individual(sender, token, recipient, amount, ok) ==
    /\ constructed /\ Ready
    /\ calls' = <<call_contract(token, TransferFromCallData(sender, recipient, amount),
                                ok)>>
    /\ total_erc20_sent' = U256Add(total_erc20_sent, amount)
    /\ user_erc20_sent' = [user_erc20_sent EXCEPT ![sender] = U256Add(@, amount)]
    /\ Returned(Call("send_erc20_individual", sender, 0, "", token,
                    <<recipient>>, <<amount>>, "Ok"))
    /\ UNCHANGED <<constructed, owner, greeting, premium, total_counter,
                   user_greeting_counter, total_native_sent, user_native_sent,
                   balance, hist>>
    /\ events' = log(ERC20TokenSent(token, sender, recipient, amount), storage')

(***************************************************************************)
(* YourContract::send_erc20_batch                                          *)
(***************************************************************************)
RECURSIVE erc20_batch_loop(_, _, _, _, _, _, _)
erc20_batch_loop(i, st, sender, token, recipients, amounts, oks) ==
    IF i > Len(recipients) THEN st
    ELSE IF i > Len(amounts) THEN [st EXCEPT !.panicked = TRUE]
    ELSE erc20_batch_loop(i + 1,
             [panicked     |-> FALSE,
              total_amount |-> U256Add(st.total_amount, amounts[i]),
              calls        |-> Append(st.calls,
                                  call_contract(token,
                                      TransferFromCallData(sender, recipients[i],
                                                           amounts[i]),
                                      oks[i]))],
             sender, token, recipients, amounts, oks)

BatchERC20TokenSent(token, from, total_amount, recipient_count) ==
    [name |-> "BatchERC20TokenSent", token |-> token, from |-> from,
     totalAmount |-> total_amount, recipientCount |-> recipient_count]

send_erc20_batch(sender, token, recipients, amounts, oks) ==
    /\ constructed /\ Ready
    /\ LET r == erc20_batch_loop(1,
                    [panicked |-> FALSE, total_amount |-> 0, calls |-> <<>>],
                    sender, token, recipients, amounts, oks)
       IN  IF r.panicked
           THEN Reverted(Call("send_erc20_batch", sender, 0, "", token,
                              recipients, amounts, "Panic"))
           ELSE /\ calls' = r.calls
                /\ total_erc20_sent' = U256Add(total_erc20_sent, r.total_amount)
                /\ user_erc20_sent' =
                       [user_erc20_sent EXCEPT ![sender] = U256Add(@, r.total_amount)]
                /\ Returned(Call("send_erc20_batch", sender, 0, "", token,
                                recipients, amounts, "Ok"))
                /\ UNCHANGED <<constructed, owner, greeting, premium, total_counter,
                               user_greeting_counter, total_native_sent,
                               user_native_sent, balance, hist>>
                /\ events' = log(BatchERC20TokenSent(token, sender, r.total_amount,
                                                     Len(recipients)),
                                 storage')

(***************************************************************************)
(* The read accessors (&self): each returns a stored value.                *)
(***************************************************************************)
Read(op, user, value) ==
    /\ constructed /\ Ready
    /\ last' = Call(op, ZERO, 0, "", user, <<>>, <<>>, value)
    /\ events' = <<>>
    /\ calls' = <<>>
    /\ UNCHANGED <<constructed, storage, balance, hist, ncalls, reader>>

get_greeting == Read("greeting", ZERO, greeting)
get_premium == Read("premium", ZERO, premium)
get_total_counter == Read("total_counter", ZERO, total_counter)
get_user_greeting_counter(user) ==
    Read("user_greeting_counter", user, user_greeting_counter[user])
get_total_native_sent == Read("get_total_native_sent", ZERO, total_native_sent)
get_user_native_sent(user) ==
    Read("get_user_native_sent", user, user_native_sent[user])
get_total_erc20_sent == Read("get_total_erc20_sent", ZERO, total_erc20_sent)
get_user_erc20_sent(user) ==
    Read("get_user_erc20_sent", user, user_erc20_sent[user])
get_owner == Read("owner", ZERO, owner)

(***************************************************************************)
(* YourContract::receive_ether                                             *)
(***************************************************************************)
receive_ether_premium(sender, value) ==
    /\ constructed /\ Ready
    /\ value <= balance[sender]
    /\ balance' = Receive(balance, sender, value)
    /\ premium' = IsPremium(value)
    /\ events' = <<>>
    /\ calls' = <<>>
    /\ Returned(Call("receive_ether", sender, value, "", ZERO, <<>>, <<>>, "Ok"))
    /\ UNCHANGED <<constructed, owner, greeting, total_counter, user_greeting_counter,
                   total_native_sent, total_erc20_sent, user_native_sent,
                   user_erc20_sent, hist>>

receive_ether(sender, value) ==
    /\ constructed /\ Ready
    /\ value <= balance[sender]
    /\ balance' = Receive(balance, sender, value)
    /\ events' = <<>>
    /\ calls' = <<>>
    /\ Returned(Call("receive_ether", sender, value, "", ZERO, <<>>, <<>>, "Ok"))
    /\ UNCHANGED <<constructed, storage, hist>>

(***************************************************************************)
(* impl IOwnable for YourContract                                          *)
(***************************************************************************)
transfer_ownership_to_any(sender, new_owner) ==
    /\ constructed /\ Ready
    /\ IF ~only_owner(sender)
       THEN Reverted(Call("transfer_ownership", sender, 0, "", new_owner, <<>>, <<>>,
                          "UnauthorizedAccount"))
       ELSE /\ owner' = new_owner
            /\ events' = <<OwnershipTransferred(owner, new_owner)>>
            /\ calls' = <<>>
            /\ Returned(Call("transfer_ownership", sender, 0, "", new_owner, <<>>, <<>>,
                            "Ok"))
            /\ UNCHANGED <<constructed, greeting, premium, total_counter,
                           user_greeting_counter, total_native_sent, total_erc20_sent,
                           user_native_sent, user_erc20_sent, balance, hist>>

transfer_ownership(sender, new_owner) ==
    /\ constructed /\ Ready
    /\ IF ~only_owner(sender)
       THEN Reverted(Call("transfer_ownership", sender, 0, "", new_owner, <<>>, <<>>,
                          "UnauthorizedAccount"))
       ELSE IF new_owner = ZERO
       THEN Reverted(Call("transfer_ownership", sender, 0, "", new_owner, <<>>, <<>>,
                          "InvalidOwner"))
       ELSE /\ owner' = new_owner
            /\ events' = <<OwnershipTransferred(owner, new_owner)>>
            /\ calls' = <<>>
            /\ Returned(Call("transfer_ownership", sender, 0, "", new_owner, <<>>, <<>>,
                            "Ok"))
            /\ UNCHANGED <<constructed, greeting, premium, total_counter,
                           user_greeting_counter, total_native_sent, total_erc20_sent,
                           user_native_sent, user_erc20_sent, balance, hist>>

renounce_ownership(sender) ==
    /\ constructed /\ Ready
    /\ IF ~only_owner(sender)
       THEN Reverted(Call("renounce_ownership", sender, 0, "", ZERO, <<>>, <<>>,
                          "UnauthorizedAccount"))
       ELSE /\ owner' = ZERO
            /\ events' = <<OwnershipTransferred(owner, ZERO)>>
            /\ calls' = <<>>
            /\ Returned(Call("renounce_ownership", sender, 0, "", ZERO, <<>>, <<>>, "Ok"))
            /\ UNCHANGED <<constructed, greeting, premium, total_counter,
                           user_greeting_counter, total_native_sent, total_erc20_sent,
                           user_native_sent, user_erc20_sent, balance, hist>>

(***************************************************************************)
(* The ledger: any user calls any public method with any arguments.        *)
(***************************************************************************)
Values == 0..InitBalance

call_constructor ==
    Ready /\ \E s \in Users, o \in Users \cup {ZERO} : constructor(s, o)
call_set_greeting ==
    Ready /\ \E s \in Users, v \in Values, g \in Greetings : set_greeting(s, v, g)
call_withdraw ==
    Ready /\ \E s \in Users, a \in BOOLEAN : withdraw(s, a)
call_send_native_individual ==
    Ready /\ \E s \in Users, v \in Values, r \in Users, m \in Amounts, a \in BOOLEAN :
                 send_native_individual(s, v, r, m, a)
call_send_native_batch ==
    Ready /\ \E s \in Users, v \in Values, rs \in SeqsUpTo(Users, MaxLen),
                ms \in SeqsUpTo(Amounts, MaxLen) :
                 \E a \in [1..Len(rs) -> BOOLEAN] : send_native_batch(s, v, rs, ms, a)
call_send_erc20_individual ==
    Ready /\ \E s \in Users, t \in Tokens, r \in Users, m \in Amounts, k \in BOOLEAN :
                 send_erc20_individual(s, t, r, m, k)
call_send_erc20_batch ==
    Ready /\ \E s \in Users, t \in Tokens, rs \in SeqsUpTo(Users, MaxLen),
                ms \in SeqsUpTo(Amounts, MaxLen) :
                 \E k \in [1..Len(rs) -> BOOLEAN] : send_erc20_batch(s, t, rs, ms, k)
call_receive_ether ==
    Ready /\ \E s \in Users, v \in Values : receive_ether(s, v)
call_transfer_ownership ==
    Ready /\ \E s \in Users, o \in Users \cup {ZERO} : transfer_ownership(s, o)
call_renounce_ownership ==
    Ready /\ \E s \in Users : renounce_ownership(s)
call_greeting == Ready /\ get_greeting
call_premium == Ready /\ get_premium
call_total_counter == Ready /\ get_total_counter
call_user_greeting_counter == Ready /\ \E u \in Users : get_user_greeting_counter(u)
call_get_total_native_sent == Ready /\ get_total_native_sent
call_get_user_native_sent == Ready /\ \E u \in Users : get_user_native_sent(u)
call_get_total_erc20_sent == Ready /\ get_total_erc20_sent
call_get_user_erc20_sent == Ready /\ \E u \in Users : get_user_erc20_sent(u)
call_owner == Ready /\ get_owner

Next ==
    \/ call_constructor
    \/ call_set_greeting
    \/ call_withdraw
    \/ call_send_native_individual
    \/ call_send_native_batch
    \/ call_send_erc20_individual
    \/ call_send_erc20_batch
    \/ call_receive_ether
    \/ call_transfer_ownership
    \/ call_renounce_ownership
    \/ call_greeting
    \/ call_premium
    \/ call_total_counter
    \/ call_user_greeting_counter
    \/ call_get_total_native_sent
    \/ call_get_user_native_sent
    \/ call_get_total_erc20_sent
    \/ call_get_user_erc20_sent
    \/ call_owner
    \/ Settle

(***************************************************************************)
(* PortfolioReader.  It holds no storage: what it returns depends on the   *)
(* host's balances and on the token contracts it calls.                    *)
(***************************************************************************)
ReaderTokens == {43981, 48879}

\* The outcome of one external view call: the decoded value, or a failure
\* with whatever the callee left behind.
CallOk(v) == [ok |-> TRUE, value |-> v]
CallErr(junk) == [ok |-> FALSE, value |-> junk]

\* What a token contract answers to balanceOf, decimals, symbol and name.
Deployed ==
    [code_size : {1},
     balance_of : [Users -> {CallErr(9), CallOk(5)}],
     decimals : {CallErr(9), CallOk(6), CallOk(18)},
     symbol : {CallErr("revert"), CallOk("TKA")},
     name : {CallErr("revert"), CallOk("Token A")}]

\* An address without code: every call to it fails.
NoCode ==
    [code_size |-> 0,
     balance_of |-> [u \in Users |-> CallErr(9)],
     decimals |-> CallErr(9),
     symbol |-> CallErr("revert"),
     name |-> CallErr("revert")]

Worlds == [ReaderTokens -> Deployed \cup {NoCode}]
NoTokens == [t \in ReaderTokens |-> NoCode]

\* IERC20::new(token).balance_of(self, user) and the other three view calls.
balance_of(token, user) == world[token].balance_of[user]
decimals(token) == world[token].decimals
symbol(token) == world[token].symbol
name(token) == world[token].name

\* Result<T, Vec<u8>>
Ok(v) == [ok |-> TRUE, value |-> v]

get_eth_balance(user) == balance[user]

get_token_balance(token, user) ==
    LET r == balance_of(token, user) IN IF r.ok THEN Ok(r.value) ELSE Ok(0)

get_token_decimals_zero(token) ==
    LET r == decimals(token) IN IF r.ok THEN Ok(r.value) ELSE Ok(0)
get_token_decimals(token) ==
    LET r == decimals(token) IN IF r.ok THEN Ok(r.value) ELSE Ok(18)

get_token_symbol(token) ==
    LET r == symbol(token) IN IF r.ok THEN Ok(r.value) ELSE Ok("UNKNOWN")

get_token_name(token) ==
    LET r == name(token) IN IF r.ok THEN Ok(r.value) ELSE Ok("Unknown Token")

\* match result { Ok(v) => v, Err(_) => fallback }
OrElse(result, fallback) == IF result.ok THEN result.value ELSE fallback

\* self.vm().code_size(addr)
code_size(addr) == world[addr].code_size

\* batch_get_balances: one balance pushed per token, in the order of the input.
RECURSIVE for_token_balances(_, _, _)
for_token_balances(tokens, user, balances) ==
    IF tokens = <<>> THEN balances
    ELSE LET token == Head(tokens)
             bal == OrElse(get_token_balance(token, user), 0)
         IN  for_token_balances(Tail(tokens), user, Append(balances, bal))

batch_get_balances(tokens, user) == for_token_balances(tokens, user, <<>>)

\* The body of the loop of batch_get_token_info: four independent reads.
token_info_all_or_nothing(token, user) ==
    IF balance_of(token, user).ok
    THEN <<OrElse(get_token_balance(token, user), 0),
           OrElse(get_token_decimals(token), 18),
           OrElse(get_token_symbol(token), "UNKNOWN"),
           OrElse(get_token_name(token), "Unknown Token")>>
    ELSE <<0, 18, "UNKNOWN", "Unknown Token">>
token_info(token, user) ==
    LET bal == OrElse(get_token_balance(token, user), 0)
        dec == OrElse(get_token_decimals(token), 18)
        sym == OrElse(get_token_symbol(token), "UNKNOWN")
        n == OrElse(get_token_name(token), "Unknown Token")
    IN  <<bal, dec, sym, n>>

RECURSIVE for_token_info(_, _, _)
for_token_info(tokens, user, results) ==
    IF tokens = <<>> THEN results
    ELSE for_token_info(Tail(tokens), user,
                        Append(results, token_info(Head(tokens), user)))

batch_get_token_info(tokens, user) == for_token_info(tokens, user, <<>>)

\* The body of the loop of get_portfolio: the same four reads, written out
\* again, with the token address in front.
portfolio_entry_no_name(token, user) ==
    <<token,
      OrElse(get_token_balance(token, user), 0),
      OrElse(get_token_decimals(token), 18),
      OrElse(get_token_symbol(token), "UNKNOWN"),
      "Unknown Token">>
portfolio_entry(token, user) ==
    LET bal == OrElse(get_token_balance(token, user), 0)
        dec == OrElse(get_token_decimals(token), 18)
        sym == OrElse(get_token_symbol(token), "UNKNOWN")
        n == OrElse(get_token_name(token), "Unknown Token")
    IN  <<token, bal, dec, sym, n>>

RECURSIVE for_portfolio(_, _, _)
for_portfolio(tokens, user, token_info_acc) ==
    IF tokens = <<>> THEN token_info_acc
    ELSE for_portfolio(Tail(tokens), user,
                       Append(token_info_acc, portfolio_entry(Head(tokens), user)))

get_portfolio(tokens, user) ==
    LET eth_balance == get_eth_balance(user)
    IN  <<eth_balance, for_portfolio(tokens, user, <<>>)>>

\* batch_is_contract: code_size > 0 pushed per address.
RECURSIVE for_is_contract(_, _)
for_is_contract(addresses, results) ==
    IF addresses = <<>> THEN results
    ELSE for_is_contract(Tail(addresses),
                         Append(results, code_size(Head(addresses)) > 0))

batch_is_contract_newest_first(addresses) ==
    LET r == for_is_contract(addresses, <<>>)
    IN  [i \in 1..Len(r) |-> r[Len(r) + 1 - i]]
batch_is_contract(addresses) == for_is_contract(addresses, <<>>)

Query(op, tokens, user) == [op |-> op, tokens |-> tokens, user |-> user]
NoQuery == Query("idle", <<>>, ZERO)
ReaderIdle == query = NoQuery /\ ret = <<>>

call_get_eth_balance ==
    ReaderIdle /\ \E u \in Users :
        /\ query' = Query("get_eth_balance", <<>>, u)
        /\ ret' = get_eth_balance(u)
        /\ UNCHANGED <<ledger, world>>
call_get_token_balance ==
    ReaderIdle /\ \E t \in ReaderTokens, u \in Users :
        /\ query' = Query("get_token_balance", <<t>>, u)
        /\ ret' = get_token_balance(t, u)
        /\ UNCHANGED <<ledger, world>>
call_get_token_decimals ==
    ReaderIdle /\ \E t \in ReaderTokens :
        /\ query' = Query("get_token_decimals", <<t>>, ZERO)
        /\ ret' = get_token_decimals(t)
        /\ UNCHANGED <<ledger, world>>
call_get_token_symbol ==
    ReaderIdle /\ \E t \in ReaderTokens :
        /\ query' = Query("get_token_symbol", <<t>>, ZERO)
        /\ ret' = get_token_symbol(t)
        /\ UNCHANGED <<ledger, world>>
call_get_token_name ==
    ReaderIdle /\ \E t \in ReaderTokens :
        /\ query' = Query("get_token_name", <<t>>, ZERO)
        /\ ret' = get_token_name(t)
        /\ UNCHANGED <<ledger, world>>

call_batch_get_balances ==
    ReaderIdle /\ \E ts \in SeqsUpTo(ReaderTokens, MaxLen), u \in Users :
        /\ query' = Query("batch_get_balances", ts, u)
        /\ ret' = batch_get_balances(ts, u)
        /\ UNCHANGED <<ledger, world>>
call_batch_get_token_info ==
    ReaderIdle /\ \E ts \in SeqsUpTo(ReaderTokens, MaxLen), u \in Users :
        /\ query' = Query("batch_get_token_info", ts, u)
        /\ ret' = batch_get_token_info(ts, u)
        /\ UNCHANGED <<ledger, world>>
call_get_portfolio ==
    ReaderIdle /\ \E ts \in SeqsUpTo(ReaderTokens, MaxLen), u \in Users :
        /\ query' = Query("get_portfolio", ts, u)
        /\ ret' = get_portfolio(ts, u)
        /\ UNCHANGED <<ledger, world>>
call_batch_is_contract ==
    ReaderIdle /\ \E addresses \in SeqsUpTo(ReaderTokens, MaxLen) :
        /\ query' = Query("batch_is_contract", addresses, ZERO)
        /\ ret' = batch_is_contract(addresses)
        /\ UNCHANGED <<ledger, world>>

\* The call has returned to its caller; the reader keeps nothing of it.
ReaderSettle ==
    /\ ~ReaderIdle
    /\ query' = NoQuery
    /\ ret' = <<>>
    /\ UNCHANGED <<ledger, world>>

NextReader ==
    \/ call_get_eth_balance
    \/ call_get_token_balance
    \/ call_get_token_decimals
    \/ call_get_token_symbol
    \/ call_get_token_name
    \/ call_batch_get_balances
    \/ call_batch_get_token_info
    \/ call_get_portfolio
    \/ call_batch_is_contract
    \/ ReaderSettle

(***************************************************************************)
(* The two specifications: the ledger alone, and the reader alone over     *)
(* every world of token contracts.                                         *)
(***************************************************************************)
Init == LedgerInit /\ ReaderIdle /\ world = NoTokens

Spec == Init /\ [][Next]_vars

InitReader == LedgerInit /\ ReaderIdle /\ world \in Worlds

SpecReader == InitReader /\ [][NextReader]_vars

(***************************************************************************)
(* Properties of the ledger.                                               *)
(***************************************************************************)
SendOps == {"send_native_individual", "send_native_batch",
            "send_erc20_individual", "send_erc20_batch"}
NativeOps == {"send_native_individual", "send_native_batch"}
BatchOps == {"send_native_batch", "send_erc20_batch"}
OwnerOps == {"withdraw", "transfer_ownership", "renounce_ownership"}

counters == <<total_counter, user_greeting_counter, total_native_sent,
              total_erc20_sent, user_native_sent, user_erc20_sent>>
sent_counters == <<total_native_sent, total_erc20_sent, user_native_sent,
                   user_erc20_sent>>

\* C1: after n set_greeting calls by any mix of callers, total_counter is n,
\* user_greeting_counter[c] is the number of those calls c made, the greeting
\* is the argument of the last call and premium is (its msg_value > 0).
C1_SetGreetingTotals ==
    constructed =>
        /\ total_counter = hist.n
        /\ \A c \in Users : user_greeting_counter[c] = hist.by[c]
        /\ hist.n > 0 => greeting = hist.label /\ premium = (hist.value > 0)

C1_Witness ==
    /\ last.op = "set_greeting" /\ last.text = "B" /\ last.value > 0
    /\ hist.n = 2 /\ greeting = "B" /\ premium /\ total_counter = 2

\* C2: in every reachable state total_counter is the sum of
\* user_greeting_counter over all accounts.
C2_TotalIsSumOfUserCounters ==
    total_counter = SumOver(user_greeting_counter, Users)

C2_Witness ==
    /\ total_counter = 2
    /\ \A c \in Users : user_greeting_counter[c] = 1
    /\ last.op \in SendOps

\* C3: in every reachable state total_native_sent is the sum of
\* user_native_sent over all accounts, and total_erc20_sent the sum of
\* user_erc20_sent.
C3_SentTotalsAreSums ==
    /\ total_native_sent = SumOver(user_native_sent, Users)
    /\ total_erc20_sent = SumOver(user_erc20_sent, Users)

\* C4: a batch call whose recipients and amounts differ in length (either
\* way) fails with a bounds error and changes no sent counter.
C4_MismatchedLengthsFail ==
    [][(last'.op \in BatchOps /\ Len(last'.recipients) # Len(last'.amounts))
          => (last'.result = "Panic" /\ UNCHANGED sent_counters)]_vars

\* C5: a batch call with k recipients and k amounts raises the total and the
\* caller's sent counter by exactly the sum of the amounts and emits one
\* aggregate event with totalAmount = sum(amounts) and recipientCount = k.
C5_BatchAddsSum ==
    [][(last'.op \in BatchOps /\ Len(last'.recipients) = Len(last'.amounts))
          => LET c == last'.sender
                 total == Sum(last'.amounts)
             IN  /\ Len(events') = 1
                 /\ events'[1].totalAmount = total
                 /\ events'[1].recipientCount = Len(last'.recipients)
                 /\ IF last'.op = "send_native_batch"
                    THEN /\ events'[1].name = "BatchNativeTokenSent"
                         /\ total_native_sent' = total_native_sent + total
                         /\ user_native_sent'[c] = user_native_sent[c] + total
                    ELSE /\ events'[1].name = "BatchERC20TokenSent"
                         /\ total_erc20_sent' = total_erc20_sent + total
                         /\ user_erc20_sent'[c] = user_erc20_sent[c] + total]_vars

\* C6: withdraw, transfer_ownership and renounce_ownership called by an
\* account that is not the owner return UnauthorizedAccount, issue no
\* external call and leave the owner, every balance and every counter as
\* they were.
C6_OnlyOwner ==
    [][(last'.op \in OwnerOps /\ last'.sender # owner)
          => /\ last'.result = "UnauthorizedAccount"
             /\ calls' = <<>>
             /\ UNCHANGED <<owner, balance, counters>>]_vars

C6_Witness ==
    /\ last.op = "withdraw" /\ last.result = "UnauthorizedAccount"
    /\ last.sender # owner /\ owner # ZERO
    /\ balance[SELF] > 0
    /\ total_native_sent > 0

\* C7: a send whose amounts would carry the batch total, the total sent
\* counter or the caller's sent counter past the largest word fails instead
\* of storing the sum modulo 2^256.
C7_NoSilentWrap ==
    [][(last'.op \in SendOps /\ Len(last'.recipients) = Len(last'.amounts))
          => LET total == Sum(last'.amounts)
                 c == last'.sender
                 before == IF last'.op \in NativeOps
                           THEN <<total_native_sent, user_native_sent[c]>>
                           ELSE <<total_erc20_sent, user_erc20_sent[c]>>
             IN  (total > U256_MAX \/ before[1] + total > U256_MAX
                    \/ before[2] + total > U256_MAX)
                     => last'.result # "Ok"]_vars

\* C8: no public operation lowers total_counter, total_native_sent,
\* total_erc20_sent or any entry of the three per-caller maps.
C8_CountersNeverDecrease ==
    [][/\ total_counter' >= total_counter
       /\ total_native_sent' >= total_native_sent
       /\ total_erc20_sent' >= total_erc20_sent
       /\ \A c \in Users :
            /\ user_greeting_counter'[c] >= user_greeting_counter[c]
            /\ user_native_sent'[c] >= user_native_sent[c]
            /\ user_erc20_sent'[c] >= user_erc20_sent[c]]_vars

\* Byte k (0 is the least significant) of the integer n written in base 256.
RECURSIVE ByteAt(_, _)
ByteAt(n, k) == IF k = 0 THEN n % 256 ELSE ByteAt(n \div 256, k - 1)

\* The 32-byte big-endian word that spells n, for the accounts and amounts
\* that occur.
BigEndianWord == [n \in Users \cup Amounts |-> [j \in 1..32 |-> ByteAt(n, 32 - j)]]

\* C9: the payload of every transferFrom call issued by send_erc20_individual
\* and send_erc20_batch is 100 bytes: the selector 0x23b872dd, the caller
\* right-aligned in 32 bytes after 12 zero bytes, the recipient likewise, and
\* the amount as a 32-byte big-endian integer.
C9_TransferFromPayload ==
    \A i \in 1..Len(calls) :
        calls[i].kind = "call_contract" =>
            LET data == calls[i].data
            IN  /\ Len(data) = 100
                /\ SubSeq(data, 1, 4) = <<35, 184, 114, 221>>
                /\ \A j \in 5..16 : data[j] = 0
                /\ SubSeq(data, 5, 36) = BigEndianWord[last.sender]
                /\ \A j \in 37..48 : data[j] = 0
                /\ SubSeq(data, 37, 68) = BigEndianWord[last.recipients[i]]
                /\ SubSeq(data, 69, 100) = BigEndianWord[last.amounts[i]]

C9_Witness ==
    /\ last.op = "send_erc20_batch" /\ last.sender = 258
    /\ Len(calls) = 2
    /\ last.recipients = <<1, 258>>
    /\ last.amounts = <<1, U256_MAX>>

\* C14: the owner of the constructed ledger becomes ZERO only by a successful
\* renounce_ownership called by the current owner. The constructor with a
\* ZERO initial owner fails with InvalidOwner and constructs nothing;
\* transfer_ownership to ZERO fails (with InvalidOwner when the caller is the
\* owner) and leaves the owner unchanged.
C14_NullOwnerOnlyByRenounce ==
    [][/\ (constructed' /\ owner' = ZERO /\ ~(constructed /\ owner = ZERO))
            => /\ constructed
               /\ last'.op = "renounce_ownership"
               /\ last'.sender = owner
               /\ last'.result = "Ok"
       /\ (last'.op = "constructor" /\ last'.addr = ZERO)
            => /\ last'.result = "InvalidOwner"
               /\ UNCHANGED <<constructed, owner>>
       /\ (last'.op = "transfer_ownership" /\ last'.addr = ZERO)
            => /\ last'.result # "Ok"
               /\ last'.sender = owner => last'.result = "InvalidOwner"
               /\ UNCHANGED owner]_vars

\* The owner has renounced after other calls were made.
C14_Witness ==
    /\ last.op = "renounce_ownership" /\ last.result = "Ok"
    /\ owner = ZERO
    /\ hist.n > 0

\* C15: withdraw called by the owner returns Ok. With a nonzero contract
\* balance it issues exactly one transfer_eth of the whole balance to the
\* owner, and returns Ok whether or not that transfer succeeds; with a zero
\* balance it issues none. It changes no counter, nor the greeting, the
\* premium flag or the owner.
C15_WithdrawByOwner ==
    [][(last'.op = "withdraw" /\ last'.sender = owner)
          => /\ last'.result = "Ok"
             /\ balance[SELF] > 0 =>
                   /\ Len(calls') = 1
                   /\ calls'[1].kind = "transfer_eth"
                   /\ calls'[1].to = owner
                   /\ calls'[1].value = balance[SELF]
                   /\ calls'[1].ok => balance'[SELF] = 0
                   /\ ~calls'[1].ok => balance' = balance
             /\ balance[SELF] = 0 => calls' = <<>> /\ balance' = balance
             /\ UNCHANGED <<counters, greeting, premium, owner>>]_vars

\* The owner withdrew a nonzero balance and the transfer failed.
C15_Witness ==
    /\ last.op = "withdraw" /\ last.sender = owner /\ last.result = "Ok"
    /\ Len(calls) = 1 /\ ~calls[1].ok /\ calls[1].value > 0
    /\ balance[SELF] = calls[1].value
    /\ total_counter > 0

\* The event a successful call of each emitting operation logs.
EventOf ==
    [set_greeting |-> "GreetingChange",
     send_native_individual |-> "NativeTokenSent",
     send_native_batch |-> "BatchNativeTokenSent",
     send_erc20_individual |-> "ERC20TokenSent",
     send_erc20_batch |-> "BatchERC20TokenSent"]

\* C16: a successful set_greeting, send_native_individual, send_native_batch,
\* send_erc20_individual or send_erc20_batch logs exactly one event, its own,
\* and logs it when every storage update of the call has been made; a batch
\* over k recipients logs one event with recipientCount = k.
C16_OneEventAfterUpdates ==
    (last.op \in DOMAIN EventOf /\ last.result = "Ok") =>
        /\ Len(events) = 1
        /\ events[1].name = EventOf[last.op]
        /\ events[1].seen = storage
        /\ last.op \in BatchOps => events[1].recipientCount = Len(last.recipients)

\* A batch over two recipients that moved the sent counters.
C16_Witness ==
    /\ last.op = "send_native_batch" /\ last.result = "Ok"
    /\ Len(last.recipients) = 2 /\ Len(calls) = 2
    /\ Len(events) = 1 /\ events[1].recipientCount = 2
    /\ events[1].totalAmount = 2
    /\ total_native_sent = 2 /\ user_native_sent[last.sender] = 2

\* C17: right after a successful constructor(O), owner is O, the greeting is
\* "Building Unstoppable Apps!!!", premium is FALSE, total_counter,
\* total_native_sent and total_erc20_sent are 0 and every per-caller counter
\* is 0.
C17_Constructed ==
    (last.op = "constructor" /\ last.result = "Ok") =>
        /\ constructed
        /\ owner = last.addr
        /\ greeting = "Building Unstoppable Apps!!!"
        /\ premium = FALSE
        /\ total_counter = 0 /\ total_native_sent = 0 /\ total_erc20_sent = 0
        /\ \A u \in Users :
              /\ user_greeting_counter[u] = 0
              /\ user_native_sent[u] = 0
              /\ user_erc20_sent[u] = 0

\* Constructed for an owner other than the deployer, after a failed attempt.
C17_Witness ==
    /\ last.op = "constructor" /\ last.result = "Ok"
    /\ last.sender = 1 /\ owner = 258
    /\ ncalls = 2

\* C18: a send is neither stopped nor rolled back by failing transfers:
\* whichever of its transfer_eth or transferFrom calls fail, a send over as
\* many amounts as recipients returns Ok, has made one call per recipient, in
\* order, has raised the total and the caller's sent counter by the sum of
\* the requested amounts, and has logged its event.
C18_FailuresDoNotStopSends ==
    [][(last'.op \in SendOps /\ Len(last'.recipients) = Len(last'.amounts))
          => LET c == last'.sender
                 total == Sum(last'.amounts)
             IN  /\ last'.result = "Ok"
                 /\ Len(calls') = Len(last'.recipients)
                 /\ \A i \in 1..Len(calls') :
                       IF last'.op \in NativeOps
                       THEN /\ calls'[i].kind = "transfer_eth"
                            /\ calls'[i].to = last'.recipients[i]
                            /\ calls'[i].value = last'.amounts[i]
                       ELSE /\ calls'[i].kind = "call_contract"
                            /\ calls'[i].to = last'.addr
                 /\ Len(events') = 1
                 /\ IF last'.op \in NativeOps
                    THEN /\ total_native_sent' = total_native_sent + total
                         /\ user_native_sent'[c] = user_native_sent[c] + total
                    ELSE /\ total_erc20_sent' = total_erc20_sent + total
                         /\ user_erc20_sent'[c] = user_erc20_sent[c] + total]_vars

\* C19: send_erc20_batch over as many amounts as recipients issues exactly
\* one call per recipient, every one to the token, in the order of the
\* input, the i-th being transferFrom(caller, recipients[i], amounts[i]); and
\* no transferFrom issued by either token send names a from-account other
\* than the caller.
C19_BatchCallsInOrder ==
    /\ (last.op = "send_erc20_batch" /\ Len(last.recipients) = Len(last.amounts))
          => /\ Len(calls) = Len(last.recipients)
             /\ \A i \in 1..Len(last.recipients) :
                   /\ calls[i].kind = "call_contract"
                   /\ calls[i].to = last.addr
                   /\ calls[i].data = <<35, 184, 114, 221>>
                                          \o BigEndianWord[last.sender]
                                          \o BigEndianWord[last.recipients[i]]
                                          \o BigEndianWord[last.amounts[i]]
    /\ \A i \in 1..Len(calls) :
          calls[i].kind = "call_contract" =>
              /\ calls[i].to \in Tokens
              /\ SubSeq(calls[i].data, 5, 36) = BigEndianWord[last.sender]

\* Two different recipients and amounts, the first call failing.
C19_Witness ==
    /\ last.op = "send_erc20_batch" /\ last.result = "Ok"
    /\ last.sender = 1
    /\ last.recipients = <<258, 1>>
    /\ last.amounts = <<U256_MAX, 1>>
    /\ Len(calls) = 2 /\ ~calls[1].ok /\ calls[2].ok

ReadOps == {"greeting", "premium", "total_counter", "user_greeting_counter",
            "get_total_native_sent", "get_user_native_sent", "get_total_erc20_sent",
            "get_user_erc20_sent", "owner"}

\* C20: every operation writes only its own part of the storage.
\* set_greeting leaves the sent counters and the owner alone; the native
\* sends leave the token counters, the greeting counters, the greeting, the
\* premium flag and the owner alone; the token sends leave the native
\* counters, the greeting counters, the greeting, the premium flag and the
\* owner alone; a send changes no per-caller entry but the caller's;
\* receive_ether and the read accessors write nothing.
C20_Frames ==
    [][/\ last'.op = "set_greeting" => UNCHANGED <<sent_counters, owner>>
       /\ last'.op \in NativeOps
            => UNCHANGED <<total_erc20_sent, user_erc20_sent, total_counter,
                           user_greeting_counter, greeting, premium, owner>>
       /\ last'.op \in SendOps \ NativeOps
            => UNCHANGED <<total_native_sent, user_native_sent, total_counter,
                           user_greeting_counter, greeting, premium, owner>>
       /\ last'.op \in SendOps
            => \A u \in Users \ {last'.sender} :
                   /\ user_native_sent'[u] = user_native_sent[u]
                   /\ user_erc20_sent'[u] = user_erc20_sent[u]
                   /\ user_greeting_counter'[u] = user_greeting_counter[u]
       /\ last'.op \in ReadOps \cup {"receive_ether"}
            => UNCHANGED <<constructed, storage>>]_vars

\* A native send by one caller while the other caller's entries, the token
\* counters and the greeting state are all set.
C20_Witness ==
    /\ last.op = "send_native_individual" /\ last.result = "Ok"
    /\ last.sender = 1 /\ user_native_sent[1] > 0
    /\ user_erc20_sent[258] > 0
    /\ total_counter > 0 /\ premium

\* What the successful transfers among the first n calls took out of the
\* contract.
RECURSIVE Paid(_, _)
Paid(cs, n) == IF n = 0 THEN 0
               ELSE Paid(cs, n - 1) + (IF cs[n].ok THEN cs[n].value ELSE 0)

\* C21: send_native_individual and send_native_batch check no ownership.
\* Called by anybody, the owner or not, with no value attached and an amount
\* for every recipient, the call returns Ok and issues one transfer_eth per
\* recipient the caller names, each paid out of the contract's own balance:
\* the contract's balance falls by what the successful transfers carried and
\* the caller pays nothing.
C21_SendsAreNotOwnerGated ==
    [][(/\ last'.op \in NativeOps
        /\ last'.value = 0
        /\ Len(last'.recipients) <= Len(last'.amounts))
          => /\ last'.result = "Ok"
             /\ Len(calls') = Len(last'.recipients)
             /\ \A i \in 1..Len(calls') :
                   /\ calls'[i].kind = "transfer_eth"
                   /\ calls'[i].to = last'.recipients[i]
                   /\ calls'[i].value = last'.amounts[i]
                   /\ calls'[i].ok => balance[SELF] >= Paid(calls', i)
             /\ balance'[SELF] = balance[SELF] - Paid(calls', Len(calls'))
             /\ balance'[last'.sender] >= balance[last'.sender]
             /\ SumOver(balance', Holders) = SumOver(balance, Holders)]_vars

\* Somebody who is not the owner has emptied the contract into an account of
\* their choice without attaching any value.
C21_Witness ==
    /\ last.op = "send_native_individual" /\ last.result = "Ok"
    /\ owner # ZERO /\ last.sender # owner
    /\ last.value = 0
    /\ calls[1].ok /\ calls[1].value = 1
    /\ balance[SELF] = 0
    /\ balance[last.recipients[1]] = InitBalance + 1

\* C22: renouncing is permanent. Once renounce_ownership has succeeded the
\* owner of the constructed ledger is ZERO, and from then on it stays ZERO
\* and every withdraw, transfer_ownership and renounce_ownership, whoever
\* calls it, returns UnauthorizedAccount, issues no transfer and moves no
\* balance.
C22_RenounceIsPermanent ==
    [][/\ (last'.op = "renounce_ownership" /\ last'.result = "Ok") => owner' = ZERO
       /\ (constructed /\ owner = ZERO)
            => /\ owner' = ZERO
               /\ last'.op \in OwnerOps
                    => /\ last'.result = "UnauthorizedAccount"
                       /\ calls' = <<>>
                       /\ balance' = balance]_vars

\* After the renounce the contract was funded and a withdraw was refused.
C22_Witness ==
    /\ constructed /\ owner = ZERO
    /\ last.op = "withdraw" /\ last.result = "UnauthorizedAccount"
    /\ calls = <<>>
    /\ balance[SELF] > 0

(***************************************************************************)
(* Properties of the reader.                                               *)
(***************************************************************************)
SingleGetters == {"get_token_balance", "get_token_decimals", "get_token_symbol",
                  "get_token_name"}

\* The answer the token gave to the view call behind the last single getter.
Reported ==
    LET t == query.tokens[1]
    IN  CASE query.op = "get_token_balance" -> world[t].balance_of[query.user]
          [] query.op = "get_token_decimals" -> world[t].decimals
          [] query.op = "get_token_symbol" -> world[t].symbol
          [] query.op = "get_token_name" -> world[t].name

\* C10: get_token_balance, get_token_decimals, get_token_symbol and
\* get_token_name never return Err: they return what the token reported when
\* the view call succeeds, and 0, 18, "UNKNOWN", "Unknown Token" when it fails
\* (as it does for an address without code).
C10_GettersFallBack ==
    query.op \in SingleGetters =>
        /\ ret.ok
        /\ Reported.ok => ret.value = Reported.value
        /\ ~Reported.ok =>
              /\ query.op = "get_token_balance" => ret.value = 0
              /\ query.op = "get_token_decimals" => ret.value = 18
              /\ query.op = "get_token_symbol" => ret.value = "UNKNOWN"
              /\ query.op = "get_token_name" => ret.value = "Unknown Token"

C10_Witness ==
    /\ query.op = "get_token_decimals"
    /\ world[query.tokens[1]].code_size = 0
    /\ ret = [ok |-> TRUE, value |-> 18]
    /\ \E t \in ReaderTokens : world[t].decimals = CallOk(6)

\* C11: batch_get_token_info never aborts and isolates failures per token and
\* per field: whatever view calls fail, the i-th tuple holds, for each of
\* balance, decimals, symbol and name on its own, what tokens[i] reported when
\* that call succeeded and 0, 18, "UNKNOWN", "Unknown Token" when it failed.
C11_PerFieldIsolation ==
    query.op = "batch_get_token_info" =>
        /\ Len(ret) = Len(query.tokens)
        /\ \A i \in 1..Len(query.tokens) :
              LET t == world[query.tokens[i]]
                  b == t.balance_of[query.user]
              IN  /\ ret[i][1] = IF b.ok THEN b.value ELSE 0
                  /\ ret[i][2] = IF t.decimals.ok THEN t.decimals.value ELSE 18
                  /\ ret[i][3] = IF t.symbol.ok THEN t.symbol.value ELSE "UNKNOWN"
                  /\ ret[i][4] = IF t.name.ok THEN t.name.value ELSE "Unknown Token"

\* A token whose decimals and name calls succeed while its balanceOf and
\* symbol calls fail, followed by an address without code.
C11_Witness ==
    /\ query.op = "batch_get_token_info"
    /\ Len(query.tokens) = 2
    /\ world[query.tokens[1]].code_size = 1
    /\ ~world[query.tokens[1]].balance_of[query.user].ok
    /\ ~world[query.tokens[1]].symbol.ok
    /\ world[query.tokens[2]].code_size = 0
    /\ ret = << <<0, 6, "UNKNOWN", "Token A">>,
                <<0, 18, "UNKNOWN", "Unknown Token">> >>

BatchQueries == {"batch_get_balances", "batch_get_token_info", "get_portfolio",
                 "batch_is_contract"}

\* The sequence a batch operation returned (for get_portfolio, its second
\* component).
Output == IF query.op = "get_portfolio" THEN ret[2] ELSE ret

\* What the operation returns when asked about the single address a.
ResultFor(a) ==
    CASE query.op = "batch_get_balances" ->
             LET b == world[a].balance_of[query.user]
             IN  IF b.ok THEN b.value ELSE 0
      [] query.op = "batch_get_token_info" ->
             batch_get_token_info(<<a>>, query.user)[1]
      [] query.op = "get_portfolio" ->
             get_portfolio(<<a>>, query.user)[2][1]
      [] query.op = "batch_is_contract" -> world[a].code_size # 0

\* C12: batch_get_balances, batch_get_token_info, get_portfolio and
\* batch_is_contract return a sequence as long as their input, empty or with
\* repeated addresses, whose i-th element is the result for the i-th address;
\* for batch_is_contract that is TRUE exactly when the code size is nonzero.
C12_OrderAndLength ==
    query.op \in BatchQueries =>
        /\ Len(Output) = Len(query.tokens)
        /\ \A i \in 1..Len(query.tokens) : Output[i] = ResultFor(query.tokens[i])

\* An address without code in front of a deployed contract.
C12_Witness ==
    /\ query.op = "batch_is_contract"
    /\ Len(query.tokens) = 2
    /\ world[query.tokens[1]].code_size = 0
    /\ world[query.tokens[2]].code_size = 1
    /\ ret = <<FALSE, TRUE>>

\* C13: get_portfolio(tokens, user) returns get_eth_balance(user) together
\* with the sequence whose i-th element is tokens[i] followed by the i-th
\* tuple of batch_get_token_info(tokens, user) read from the same token
\* contracts.
C13_PortfolioIsZip ==
    query.op = "get_portfolio" =>
        LET info == batch_get_token_info(query.tokens, query.user)
        IN  ret = <<get_eth_balance(query.user),
                    [i \in 1..Len(query.tokens) |-> <<query.tokens[i]>> \o info[i]]>>

\* A token answering all four calls in front of an address without code.
C13_Witness ==
    /\ query.op = "get_portfolio"
    /\ query.tokens = <<43981, 48879>>
    /\ ret = <<InitBalance,
               << <<43981, 5, 6, "TKA", "Token A">>,
                  <<48879, 0, 18, "UNKNOWN", "Unknown Token">> >> >>

====
